---- MODULE Spec2Model ----
(***************************************************************************)
(* The TaskTable component of task-glitch (src/components/TaskTable.tsx):  *)
(* the ranking of the task list (sortedTasks), the ROI cell of each row    *)
(* (calculateROI), and the event handlers that dispatch the add / update / *)
(* delete intents to the callbacks received as props.                      *)
(*                                                                         *)
(* Numbers: revenue and timeTaken are integers; roi values and the text    *)
(* produced by toFixed(2) are held in hundredths (2500 is 25.00).          *)
(* An optional value is a sequence: <<>> when absent, <<v>> when present.  *)
(***************************************************************************)
EXTENDS Integers, Sequences, FiniteSets

VARIABLES
    tasks,        \* the tasks prop
    sortedTasks,  \* the ranked copy the rows are drawn from
    cells,        \* the ROI cell of each row of sortedTasks
    outcome,      \* how the last render ended: "none", "returned", "threw"
    phase,        \* "mounting", then "rendered" (or "ranked_again", "ranked_permuted")
    rankedAgain,  \* the ranking of sortedTasks (ranking applied twice)
    permTasks,    \* a reordering of the tasks prop
    permSorted,   \* the ranking of permTasks
    openForm,     \* useState(false)
    editing,      \* useState<Task | null>(null)
    calls,        \* the calls made to onAdd / onUpdate / onDelete, in order
    lastEvent     \* the event dispatched last

vars == <<tasks, sortedTasks, cells, outcome, phase, rankedAgain, permTasks,
          permSorted, openForm, editing, calls, lastEvent>>

----------------------------------------------------------------------------
(* Bounds *)

MaxTasks == 2
MaxCalls == 2
MaxRevenue == 8
MaxTime == 8

----------------------------------------------------------------------------
(* Values *)

Absent == <<>>
Some(v) == <<v>>

NaN == <<>>

Priorities == {"High", "Medium", "Low"}

\* A priority label with no entry in the rank table.
MalformedPriorities == {"Urgent"}

\* Titles are sequences of letters.
Titles == {<<"a">>, <<"a", "b">>, <<"B">>}

\* roi values, in hundredths.
Rois == {Absent, Some(0), Some(500)}

TaskIds == <<"t1", "t2", "t3", "t4", "t5">>

Range(s) == {s[i] : i \in DOMAIN s}

----------------------------------------------------------------------------
(* String.prototype.localeCompare for letters, as the default (root)       *)
(* collation orders them: first by the letters regardless of case, a       *)
(* proper prefix first; then, the letters being equal, by case, lower case *)
(* first.                                                                  *)

PrimaryWeight(c) ==
    CASE c \in {"a", "A"} -> 1
      [] c \in {"b", "B"} -> 2

TertiaryWeight(c) == IF c \in {"A", "B"} THEN 1 ELSE 0

RECURSIVE LexCompare(_, _)
LexCompare(s, t) ==
    IF s = <<>> /\ t = <<>> THEN 0
    ELSE IF s = <<>> THEN -1
    ELSE IF t = <<>> THEN 1
    ELSE IF Head(s) < Head(t) THEN -1
    ELSE IF Head(s) > Head(t) THEN 1
    ELSE LexCompare(Tail(s), Tail(t))

localeCompare(x, y) ==
    LET p == LexCompare([i \in DOMAIN x |-> PrimaryWeight(x[i])],
                        [i \in DOMAIN y |-> PrimaryWeight(y[i])])
    IN  IF p # 0 THEN p
        ELSE LexCompare([i \in DOMAIN x |-> TertiaryWeight(x[i])],
                        [i \in DOMAIN y |-> TertiaryWeight(y[i])])

----------------------------------------------------------------------------
(* The ranking: [...tasks].sort(comparator)                                *)

priorityRank == [High |-> 3, Medium |-> 2, Low |-> 1]

\* priorityRank[p]: undefined (absent) for a label the table does not hold.
RankOf(p) == IF p \in DOMAIN priorityRank THEN Some(priorityRank[p]) ELSE Absent

\* A slip: an absent roi goes below every roi (t.roi ?? -1).
RoiKey_AbsentLowest(t) == IF t.roi = Absent THEN -1 ELSE t.roi[1]

\* t.roi ?? 0
RoiKey(t) == IF t.roi = Absent THEN 0 ELSE t.roi[1]

\* A slip: the priority step left out.
Comparator_IgnoresPriority(a, b) ==
    LET roiDiff == RoiKey(b) - RoiKey(a)
    IN  IF roiDiff # 0 THEN Some(roiDiff)
        ELSE Some(localeCompare(a.title, b.title))

\* A slip: the title step left out.
Comparator_NoTitleTieBreak(a, b) ==
    LET roiDiff == RoiKey(b) - RoiKey(a)
    IN  IF roiDiff # 0 THEN Some(roiDiff)
        ELSE IF RankOf(b.priority) = Absent \/ RankOf(a.priority) = Absent
             THEN NaN
        ELSE Some(RankOf(b.priority)[1] - RankOf(a.priority)[1])

\* A slip: the title step written a.title > b.title ? 1 : -1, which answers
\* -1 for equal titles whichever comes first.
Comparator_TitleByGreaterThan(a, b) ==
    LET roiDiff == RoiKey(b) - RoiKey(a)
    IN  IF roiDiff # 0 THEN Some(roiDiff)
        ELSE IF RankOf(b.priority) = Absent \/ RankOf(a.priority) = Absent
             THEN NaN
        ELSE LET priorityDiff == RankOf(b.priority)[1] - RankOf(a.priority)[1]
             IN  IF priorityDiff # 0 THEN Some(priorityDiff)
                 ELSE IF localeCompare(a.title, b.title) > 0 THEN Some(1)
                 ELSE Some(-1)

\* The comparator of the sort: a number, or NaN when a rank is undefined
\* (undefined - n is NaN, and NaN !== 0 holds, so NaN is returned).
Comparator(a, b) ==
    LET roiDiff == RoiKey(b) - RoiKey(a)
    IN  IF roiDiff # 0 THEN Some(roiDiff)
        ELSE IF RankOf(b.priority) = Absent \/ RankOf(a.priority) = Absent
             THEN NaN
        ELSE LET priorityDiff == RankOf(b.priority)[1] - RankOf(a.priority)[1]
             IN  IF priorityDiff # 0 THEN Some(priorityDiff)
                 ELSE Some(localeCompare(a.title, b.title))

\* Array.prototype.sort reads a NaN from the comparator as +0.
SortCompare(a, b) ==
    LET v == Comparator(a, b)
    IN  IF v = NaN THEN 0 ELSE v[1]

\* Array.prototype.sort is stable: x goes after every element that does not
\* compare greater than it.
RECURSIVE Insert(_, _)
Insert(s, x) ==
    IF s = <<>> THEN <<x>>
    ELSE IF SortCompare(s[Len(s)], x) > 0
         THEN Append(Insert(SubSeq(s, 1, Len(s) - 1), x), s[Len(s)])
         ELSE Append(s, x)

RECURSIVE StableSort(_)
StableSort(s) ==
    IF s = <<>> THEN <<>>
    ELSE Insert(StableSort(SubSeq(s, 1, Len(s) - 1)), s[Len(s)])

\* A consistent comparator for the values of s, as Array.prototype.sort
\* requires of it; when it is not, the order of the result is left to the
\* implementation.
ConsistentComparator(s) ==
    LET v == [a \in Range(s), b \in Range(s) |-> SortCompare(a, b)]
    IN  \A a, b \in Range(s) :
            /\ v[a, a] = 0
            /\ (v[a, b] = 0) = (v[b, a] = 0)
            /\ (v[a, b] < 0) = (v[b, a] > 0)
            /\ \A c \in Range(s) :
                  /\ (v[a, b] = 0 /\ v[b, c] = 0) => v[a, c] = 0
                  /\ (v[a, b] < 0 /\ v[b, c] < 0) => v[a, c] < 0
                  /\ (v[a, b] > 0 /\ v[b, c] > 0) => v[a, c] > 0

Permutations(s) ==
    LET n == Len(s)
    IN  {[i \in 1..n |-> s[p[i]]] :
            p \in {q \in [1..n -> 1..n] : \A i, j \in 1..n : q[i] = q[j] => i = j}}

\* The arrays the sort of a copy of s may return.
SortResults(s) ==
    IF ConsistentComparator(s) THEN {StableSort(s)} ELSE Permutations(s)

\* A slip: tasks.sort(...) with no copy, which sorts the prop in place.
RankEffect_InPlace(ts, sorted) == [tasks |-> sorted, sortedTasks |-> sorted]

\* const sortedTasks = [...tasks].sort(...): what the statement leaves in the
\* tasks prop and in sortedTasks, the sort having returned sorted.
RankEffect(ts, sorted) == [tasks |-> ts, sortedTasks |-> sorted]

----------------------------------------------------------------------------
(* The ROI cell: calculateROI                                              *)

Dash == <<>>

Abs(n) == IF n < 0 THEN -n ELSE n

\* A slip: the quotient cut to two decimals instead of rounded.
ToFixed2_Truncated(revenue, time) ==
    LET q == (Abs(revenue) * 100) \div Abs(time)
    IN  IF (revenue < 0) # (time < 0) THEN -q ELSE q

\* (revenue / time).toFixed(2), in hundredths: the nearest hundredth, a tie
\* going away from zero (a quotient of integers with |time| < 40 that lies
\* halfway between two hundredths is an eighth, which the division yields
\* exactly).
ToFixed2(revenue, time) ==
    LET n == Abs(revenue) * 100
        d == Abs(time)
        q == (2 * n + d) \div (2 * d)
    IN  IF (revenue < 0) # (time < 0) THEN -q ELSE q

\* A slip: the guard without time <= 0.
calculateROI_NoNegativeGuard(revenue, time) ==
    IF revenue = 0 \/ time = 0 THEN Dash
    ELSE Some(ToFixed2(revenue, time))

\* A slip: the quotient taken the wrong way round (time / revenue).
calculateROI_Inverted(revenue, time) ==
    IF revenue = 0 \/ time = 0 \/ time <= 0 THEN Dash
    ELSE Some(ToFixed2(time, revenue))

calculateROI(revenue, time) ==
    IF revenue = 0 \/ time = 0 \/ time <= 0 THEN Dash
    ELSE Some(ToFixed2(revenue, time))

RoiCells(sorted) == [i \in DOMAIN sorted |-> calculateROI(sorted[i].revenue, sorted[i].timeTaken)]

----------------------------------------------------------------------------
(* Inputs *)

Task(i, title, priority, roi, revenue, timeTaken) ==
    [id |-> TaskIds[i], title |-> title, priority |-> priority, roi |-> roi,
     revenue |-> revenue, timeTaken |-> timeTaken]

FromFields(i, f) == Task(i, f.title, f.priority, f.roi, f.revenue, f.timeTaken)

\* Lists of at most MaxTasks tasks whose fields (all but the id, which the
\* store assigns, one per task) are drawn from Fields.
TaskLists(Fields) ==
    UNION {{[i \in 1..n |-> FromFields(i, f[i])] : f \in [1..n -> Fields]} :
             n \in 0..MaxTasks}

\* Tasks as the DerivedTask type admits them; the ranking reads neither
\* revenue nor timeTaken, which are held fixed.
RankedFields ==
    [title : Titles, priority : Priorities, roi : Rois,
     revenue : {100}, timeTaken : {4}]

\* Tasks whose priority may be a label the rank table does not hold.
MalformedFields ==
    [title : {<<"a">>, <<"B">>}, priority : Priorities \cup MalformedPriorities,
     roi : {Absent, Some(500)}, revenue : {100}, timeTaken : {4}]

\* One row, its revenue and timeTaken ranging over the integers of the bounds.
Revenues == (-MaxRevenue..MaxRevenue) \cup {100}
Times == -MaxTime..MaxTime

RoiRowFields ==
    [title : {<<"a">>}, priority : {"High"}, roi : {Absent},
     revenue : Revenues, timeTaken : Times]

\* The roi the store attaches to a task before it hands the list over: the
\* ROI of the metric calculator, two decimals (in hundredths), absent when
\* undefined.
DeriveROI(revenue, timeTaken) ==
    IF revenue = 0 \/ timeTaken <= 0 THEN Absent
    ELSE Some((200 * revenue + timeTaken) \div (2 * timeTaken))

DerivedRevenues == {0, 7, 100}
DerivedTimes == {-5, 0, 3, 4}

DerivedFields ==
    {[title |-> <<"a">>, priority |-> p, roi |-> DeriveROI(r, t),
      revenue |-> r, timeTaken |-> t] :
        p \in {"High", "Low"}, r \in DerivedRevenues, t \in DerivedTimes}

\* The list the event handlers are exercised on: the first n tasks of a
\* roster in which every second task outranks the one before it.
RosterTask(i) ==
    IF i % 2 = 1 THEN Task(i, <<"a">>, "Low", Absent, 0, 4)
                 ELSE Task(i, <<"B">>, "High", Some(2500), 100, 4)

RosterLists == {[i \in 1..n |-> RosterTask(i)] : n \in 0..MaxTasks}

\* What the task form may submit: the fields of a task, with the id of the
\* task being edited or with none.
FormValues(ids) ==
    [id : {Absent} \cup {Some(x) : x \in ids}, title : {<<"a", "b">>},
     priority : {"Medium"}, revenue : {7}, timeTaken : {3}]

NoValue == [id |-> Absent, title |-> <<>>, priority |-> "", revenue |-> 0, timeTaken |-> 0]

Event(type, row, value) == [type |-> type, row |-> row, value |-> value]

InitWith(lists) ==
    /\ tasks \in lists
    /\ sortedTasks = <<>>
    /\ cells = <<>>
    /\ outcome = "none"
    /\ phase = "mounting"
    /\ rankedAgain = <<>>
    /\ permTasks = <<>>
    /\ permSorted = <<>>
    /\ openForm = FALSE
    /\ editing = Absent
    /\ calls = <<>>
    /\ lastEvent = Event("none", 0, NoValue)

Init == InitWith(TaskLists(RankedFields))

InitMalformed == InitWith(TaskLists(MalformedFields))

InitRoi == InitWith({<<FromFields(1, f)>> : f \in RoiRowFields})

InitDerived == InitWith(TaskLists(DerivedFields))

InitUI == InitWith(RosterLists)

----------------------------------------------------------------------------
(* Rendering *)

uiVars == <<openForm, editing, calls, lastEvent>>
renderVars == <<tasks, sortedTasks, cells, outcome>>
rankVars == <<rankedAgain, permTasks, permSorted>>

\* The body of TaskTable up to its return: the ranking and the rows.
RenderBody ==
    /\ \E sorted \in SortResults(tasks) :
          /\ tasks' = RankEffect(tasks, sorted).tasks
          /\ sortedTasks' = RankEffect(tasks, sorted).sortedTasks
          /\ cells' = RoiCells(RankEffect(tasks, sorted).sortedTasks)
    /\ outcome' = "returned"

\* The first render.
Render ==
    /\ phase = "mounting"
    /\ RenderBody
    /\ phase' = "rendered"
    /\ UNCHANGED <<rankVars, uiVars>>

\* The ranking applied to its own result.
RankAgain ==
    /\ phase = "rendered"
    /\ \E sorted \in SortResults(sortedTasks) :
          rankedAgain' = RankEffect(sortedTasks, sorted).sortedTasks
    /\ phase' = "ranked_again"
    /\ UNCHANGED <<renderVars, permTasks, permSorted, uiVars>>

\* The ranking applied to a reordering of the tasks prop.
RankPermuted ==
    /\ phase = "rendered"
    /\ \E p \in Permutations(tasks) :
          /\ permTasks' = p
          /\ \E sorted \in SortResults(p) :
                permSorted' = RankEffect(p, sorted).sortedTasks
    /\ phase' = "ranked_permuted"
    /\ UNCHANGED <<renderVars, rankedAgain, uiVars>>

Next == Render \/ RankAgain \/ RankPermuted

Spec == Init /\ [][Next]_vars

SpecMalformed == InitMalformed /\ [][Next]_vars

SpecRoi == InitRoi /\ [][Next]_vars

SpecDerived == InitDerived /\ [][Next]_vars

----------------------------------------------------------------------------
(* Event handlers.  A handler that sets state is followed by a render; the  *)
(* callbacks onAdd, onUpdate and onDelete belong to the parent, and a call  *)
(* of one is recorded in calls.                                            *)

AddCall(value) == [op |-> "add", id |-> Absent, data |-> Some(value)]

UpdateCall(id, patch) == [op |-> "update", id |-> Some(id), data |-> Some(patch)]

DeleteCall(id) == [op |-> "delete", id |-> Some(id), data |-> Absent]

\* const { id, ...rest } = value
Rest(value) ==
    [title |-> value.title, priority |-> value.priority,
     revenue |-> value.revenue, timeTaken |-> value.timeTaken]

\* A slip: the whole value, id included, passed as the patch.
SubmitCall_KeepsId(value) ==
    IF value.id # Absent THEN UpdateCall(value.id[1], value)
    ELSE AddCall(value)

\* handleSubmit: the call it makes (an id, when present, is a non-empty
\* string, hence truthy).
SubmitCall(value) ==
    IF value.id # Absent THEN UpdateCall(value.id[1], Rest(value))
    ELSE AddCall(value)

\* The Delete button of row i: onDelete(t.id), t the task of the row.
DeleteRowCall(i) == DeleteCall(sortedTasks[i].id)

handleAddClick ==
    /\ phase = "rendered"
    /\ editing' = Absent
    /\ openForm' = TRUE
    /\ RenderBody
    /\ lastEvent' = Event("add_click", 0, NoValue)
    /\ UNCHANGED <<phase, rankVars, calls>>

handleEditClick ==
    /\ phase = "rendered"
    /\ \E i \in DOMAIN sortedTasks :
          /\ editing' = Some(sortedTasks[i])
          /\ lastEvent' = Event("edit_click", i, NoValue)
    /\ openForm' = TRUE
    /\ RenderBody
    /\ UNCHANGED <<phase, rankVars, calls>>

\* onClose of the task form.
FormClose ==
    /\ phase = "rendered"
    /\ openForm
    /\ openForm' = FALSE
    /\ RenderBody
    /\ lastEvent' = Event("form_close", 0, NoValue)
    /\ UNCHANGED <<phase, rankVars, editing, calls>>

\* onSubmit of the task form: handleSubmit(value).
FormSubmit ==
    /\ phase = "rendered"
    /\ openForm
    /\ Len(calls) < MaxCalls
    /\ \E value \in FormValues({tasks[i].id : i \in DOMAIN tasks}) :
          /\ calls' = Append(calls, SubmitCall(value))
          /\ lastEvent' = Event("submit", 0, value)
    /\ UNCHANGED <<phase, renderVars, rankVars, openForm, editing>>

DeleteClick ==
    /\ phase = "rendered"
    /\ Len(calls) < MaxCalls
    /\ \E i \in DOMAIN sortedTasks :
          /\ calls' = Append(calls, DeleteRowCall(i))
          /\ lastEvent' = Event("delete_click", i, NoValue)
    /\ UNCHANGED <<phase, renderVars, rankVars, openForm, editing>>

NextUI ==
    \/ Render
    \/ handleAddClick
    \/ handleEditClick
    \/ FormClose
    \/ FormSubmit
    \/ DeleteClick

SpecUI == InitUI /\ [][NextUI]_vars

----------------------------------------------------------------------------
(* Properties *)

Rendered == phase # "mounting"

\* An absent roi counted as 0.
RoiOrZero(t) == IF t.roi = Absent THEN 0 ELSE t.roi[1]

Weight(p) ==
    CASE p = "High" -> 3
      [] p = "Medium" -> 2
      [] p = "Low" -> 1

\* a may stand before b under the chain ROI, priority, title.
InChainOrder(a, b) ==
    \/ RoiOrZero(a) > RoiOrZero(b)
    \/ /\ RoiOrZero(a) = RoiOrZero(b)
       /\ Weight(a.priority) > Weight(b.priority)
    \/ /\ RoiOrZero(a) = RoiOrZero(b)
       /\ Weight(a.priority) = Weight(b.priority)
       /\ localeCompare(a.title, b.title) <= 0

SortKey(t) == <<RoiOrZero(t), t.priority, t.title>>

SortKeys(s) == [i \in DOMAIN s |-> SortKey(s[i])]

DistinctKeys(s) == \A i, j \in DOMAIN s : i # j => SortKey(s[i]) # SortKey(s[j])

Count(s, x) == Cardinality({i \in DOMAIN s : s[i] = x})

SameTasks(s, t) ==
    /\ Len(s) = Len(t)
    /\ \A x \in Range(s) \cup Range(t) : Count(s, x) = Count(t, x)

\* C1: with priorities in {High, Medium, Low}, every two tasks of the ranked
\* list stand in the order of the chain: the earlier has the greater ROI (an
\* absent roi counted as 0), or the same ROI and the greater priority weight
\* (High 3, Medium 2, Low 1), or the same ROI and priority and a title that
\* does not sort after the later one's.
C1_TieBreakChain ==
    Rendered =>
        \A i, j \in DOMAIN sortedTasks :
            i < j => InChainOrder(sortedTasks[i], sortedTasks[j])

\* Two tasks of equal ROI and priority that the ranking has swapped to put
\* the title sorting first on top.
C1_Witness ==
    /\ phase = "rendered"
    /\ Len(sortedTasks) = 2
    /\ sortedTasks # tasks
    /\ RoiOrZero(sortedTasks[1]) = RoiOrZero(sortedTasks[2])
    /\ sortedTasks[1].priority = sortedTasks[2].priority
    /\ localeCompare(sortedTasks[1].title, sortedTasks[2].title) < 0

\* C2, as claimed: the ranking of a reordering of the list is the ranking of
\* the list, element by element, the elements being the full records.
C2_PermutationsRankIdentically ==
    phase = "ranked_permuted" => permSorted = sortedTasks

\* C2, amended: the ranking of a reordering of the list has the same sort
\* keys (ROI with absent as 0, priority, title) at every position as the
\* ranking of the list, and is the same sequence of records when no two tasks
\* of the list share all three keys.
C2_PermutationsRankAlikeByKey ==
    phase = "ranked_permuted" =>
        /\ SortKeys(permSorted) = SortKeys(sortedTasks)
        /\ DistinctKeys(tasks) => permSorted = sortedTasks

\* A list of two tasks with different keys, ranked in both orders.
C2_Witness ==
    /\ phase = "ranked_permuted"
    /\ Len(tasks) = 2
    /\ permTasks # tasks
    /\ DistinctKeys(tasks)
    /\ permSorted = sortedTasks

RankedIsPermutation ==
    Rendered =>
        /\ SameTasks(sortedTasks, tasks)
        /\ tasks = <<>> => sortedTasks = <<>>
        /\ Len(tasks) = 1 => sortedTasks = tasks

\* C3: no step changes the tasks prop, and the ranked list holds the tasks
\* of the prop, each as often as the prop does; the empty list ranks to the
\* empty list and a list of one task to itself.
C3_InputKeptOutputPermutation ==
    [][tasks' = tasks /\ RankedIsPermutation']_vars

\* A ranking that reordered two tasks.
C3_Witness ==
    /\ phase = "rendered"
    /\ Len(tasks) = 2
    /\ sortedTasks = <<tasks[2], tasks[1]>>

\* C4: the ROI cell of a row is the dash whenever the row's time is zero or
\* negative or its revenue is zero, and the render returns.
C4_GuardYieldsDash ==
    Rendered =>
        /\ outcome = "returned"
        /\ \A i \in DOMAIN sortedTasks :
              (sortedTasks[i].timeTaken <= 0 \/ sortedTasks[i].revenue = 0)
                  => cells[i] = Dash

\* A row with a revenue and a negative time, shown with the dash.
C4_Witness ==
    /\ phase = "rendered"
    /\ Len(sortedTasks) = 1
    /\ sortedTasks[1].timeTaken < 0
    /\ sortedTasks[1].revenue # 0
    /\ cells[1] = Dash

\* h hundredths is revenue / time rounded to two decimals.
RoundedQuotient(h, revenue, time) ==
    2 * Abs(100 * revenue - h * time) <= Abs(time)

\* C5: the ROI cell of a row whose time is positive and whose revenue is not
\* zero is a number, the quotient revenue / time rounded to two decimals;
\* 100 over 4 shows 25.00 and 7 over 3 shows 2.33.
C5_QuotientToTwoDecimals ==
    Rendered =>
        \A i \in DOMAIN sortedTasks :
            LET t == sortedTasks[i]
            IN  (t.timeTaken > 0 /\ t.revenue # 0) =>
                    /\ cells[i] # Dash
                    /\ RoundedQuotient(cells[i][1], t.revenue, t.timeTaken)
                    /\ (t.revenue = 100 /\ t.timeTaken = 4) => cells[i] = Some(2500)
                    /\ (t.revenue = 7 /\ t.timeTaken = 3) => cells[i] = Some(233)

\* The row of revenue 7 and time 3, shown as 2.33.
C5_Witness ==
    /\ phase = "rendered"
    /\ Len(sortedTasks) = 1
    /\ sortedTasks[1].revenue = 7
    /\ sortedTasks[1].timeTaken = 3
    /\ cells[1] = Some(233)

\* C6: ranking the ranked list gives the ranked list.
C6_RankingIdempotent ==
    phase = "ranked_again" => rankedAgain = sortedTasks

\* A list the first ranking reordered, ranked again.
C6_Witness ==
    /\ phase = "ranked_again"
    /\ Len(tasks) = 2
    /\ sortedTasks # tasks
    /\ rankedAgain = sortedTasks

\* C7, as claimed: no task with an absent roi stands before a task whose roi
\* is present and >= 0, and a task after one with an absent roi is in chain
\* order with it.
C7_AbsentBelowEveryNonNegative ==
    Rendered =>
        \A i, j \in DOMAIN sortedTasks :
            (i < j /\ sortedTasks[i].roi = Absent) =>
                /\ ~(sortedTasks[j].roi # Absent /\ sortedTasks[j].roi[1] >= 0)
                /\ InChainOrder(sortedTasks[i], sortedTasks[j])

ExplicitZero(t) == [t EXCEPT !.roi = IF @ = Absent THEN Some(0) ELSE @]

\* The chain, read off roi values that are all present.
InExplicitChainOrder(a, b) ==
    \/ a.roi[1] > b.roi[1]
    \/ /\ a.roi[1] = b.roi[1]
       /\ Weight(a.priority) > Weight(b.priority)
    \/ /\ a.roi[1] = b.roi[1]
       /\ Weight(a.priority) = Weight(b.priority)
       /\ localeCompare(a.title, b.title) <= 0

\* C7, amended: a task with an absent roi is ranked as it would be with an
\* explicit roi of 0: it never stands before a task whose roi is present and
\* greater than 0, never after one whose roi is below 0, and against every
\* other task, one with an explicit roi of 0 included, priority and then
\* title decide.
C7_AbsentRanksAsExplicitZero ==
    Rendered =>
        \A i, j \in DOMAIN sortedTasks :
            (i < j /\ (sortedTasks[i].roi = Absent \/ sortedTasks[j].roi = Absent)) =>
                /\ InExplicitChainOrder(ExplicitZero(sortedTasks[i]),
                                        ExplicitZero(sortedTasks[j]))
                /\ sortedTasks[i].roi = Absent =>
                      (sortedTasks[j].roi = Absent \/ sortedTasks[j].roi[1] <= 0)
                /\ sortedTasks[j].roi = Absent =>
                      (sortedTasks[i].roi = Absent \/ sortedTasks[i].roi[1] >= 0)

\* A High task with an absent roi ranked above a Low task with a roi of 0
\* that came first in the prop.
C7_Witness ==
    /\ phase = "rendered"
    /\ Len(sortedTasks) = 2
    /\ sortedTasks # tasks
    /\ sortedTasks[1].roi = Absent
    /\ sortedTasks[2].roi = Some(0)
    /\ sortedTasks[1].priority = "High"
    /\ sortedTasks[2].priority = "Low"

\* A task with a priority outside the rank table meets another of equal ROI.
MalformedCompared(s) ==
    \E i, j \in DOMAIN s :
        /\ i # j
        /\ s[i].priority \notin {"High", "Medium", "Low"}
        /\ RoiOrZero(s[i]) = RoiOrZero(s[j])

\* C8: when the list holds a task whose priority is outside {High, Medium,
\* Low} and that task is compared with another of equal ROI, the ranking ends
\* in an error and returns no sequence.
C8_MalformedPriorityRejected ==
    (Rendered /\ MalformedCompared(tasks)) => outcome = "threw"

C10_OneIntentPerEvent ==
    [][LET e == lastEvent'
       IN  IF calls' = calls
           THEN e.type \notin {"submit", "delete_click"}
           ELSE \/ /\ e.type = "submit"
                   /\ e.value.id # Absent
                   /\ calls' = Append(calls,
                         [op |-> "update", id |-> e.value.id,
                          data |-> Some([title |-> e.value.title,
                                         priority |-> e.value.priority,
                                         revenue |-> e.value.revenue,
                                         timeTaken |-> e.value.timeTaken])])
                \/ /\ e.type = "submit"
                   /\ e.value.id = Absent
                   /\ calls' = Append(calls,
                         [op |-> "add", id |-> Absent, data |-> Some(e.value)])
                \/ /\ e.type = "delete_click"
                   /\ calls' = Append(calls,
                         [op |-> "delete", id |-> Some(sortedTasks[e.row].id),
                          data |-> Absent])]_vars

\* An edit submitted and then the second row deleted, the ranking having
\* reordered the rows.
C10_Witness ==
    /\ Len(calls) = 2
    /\ calls[1].op = "update"
    /\ calls[2].op = "delete"
    /\ lastEvent.type = "delete_click"
    /\ lastEvent.row = 2
    /\ sortedTasks # tasks
    /\ openForm

====
